---- MODULE Spec2Model ----
(***************************************************************************)
(* A model of milstd1553b-parser: the Thomas-Manchester codec              *)
(* (encoding.rs), the 20-bit Word with odd parity (core.rs), the Command   *)
(* and Status layouts (message.rs), the transaction parser (parser.rs)     *)
(* and the Bus Controller's Remote-Terminal registry (protocol.rs).        *)
(*                                                                         *)
(* The codec, word, message and parser functions are pure: each of their   *)
(* specifications draws an input in Init (arg), and its actions apply the  *)
(* functions one call at a time (pc is the position in that pipeline,      *)
(* wire the encoded artefact, ret the last call's result).  The Bus        *)
(* Controller is a state machine over its registry and a clock.            *)
(***************************************************************************)
EXTENDS Integers, Sequences, FiniteSets, TLC

VARIABLES
    pc,                 \* position of the caller in its pipeline of calls
    arg,                \* the input the caller holds
    wire,               \* what the encoder produced (bytes, or a Word)
    ret,                \* the result of the last call: Ok(v) or Err(kind)
    remote_terminals,   \* BusController.remote_terminals: address -> record
    now                 \* the clock read by Instant::now()

vars == <<pc, arg, wire, ret, remote_terminals, now>>

----------------------------------------------------------------------------
(* Bounds of the model.                                                    *)

\* longest logical bit sequence given to encode_bits
MaxBits == 9
\* raw word values are drawn with at most this many bits set, or cleared
MaxSetBits == 2

----------------------------------------------------------------------------
(* Result<T>: Ok(v) or Err(kind).  Only the kind of a ParseError is        *)
(* modelled, not its message string.                                       *)

Ok(v) == [ok |-> TRUE, val |-> v]
Err(e) == [ok |-> FALSE, err |-> e]
\* no call has returned yet
None == [ok |-> FALSE, err |-> "none"]

\* Option<T>
Some(v) == [some |-> TRUE, val |-> v]
NoneOption == [some |-> FALSE]

----------------------------------------------------------------------------
(* Rust's integer operators on unsigned values.                            *)

Pow2(n) == 2 ^ n

\* x >> n
Shr(x, n) == x \div Pow2(n)

\* x << n in a w-bit unsigned integer (n < w): the bits shifted past bit
\* w - 1 are dropped (a value the checker can hold has no bit above bit 30)
Shl(x, n, w) ==
    IF w - n > 30 THEN x * Pow2(n) ELSE (x % Pow2(w - n)) * Pow2(n)

RECURSIVE BitAnd(_, _)
BitAnd(a, b) ==
    IF a = 0 \/ b = 0 THEN 0
    ELSE (a % 2) * (b % 2) + 2 * BitAnd(a \div 2, b \div 2)

RECURSIVE BitOr(_, _)
BitOr(a, b) ==
    IF a = 0 THEN b
    ELSE IF b = 0 THEN a
    ELSE (IF a % 2 = 1 \/ b % 2 = 1 THEN 1 ELSE 0) + 2 * BitOr(a \div 2, b \div 2)

\* u32::count_ones / u16::count_ones
RECURSIVE count_ones(_)
count_ones(x) == IF x = 0 THEN 0 ELSE (x % 2) + count_ones(x \div 2)

----------------------------------------------------------------------------
(* core.rs: Word                                                           *)

WordTypes == {"Command", "Data", "Status", "ModeCode"}

\* faulty variant: the start bit left out of the count
validate_parity_no_start_bit(data) ==
    LET count_bits == count_ones(BitAnd(data, 131070))
        parity_bit == BitAnd(Shr(data, 17), 1) # 0
        total_ones == count_bits + (IF parity_bit THEN 1 ELSE 0)
    IN  IF total_ones % 2 = 0 THEN Err("ParityError") ELSE Ok(TRUE)

\* Word::validate_parity
validate_parity(data) ==
    LET count_bits == count_ones(BitAnd(data, 131071))
        parity_bit == BitAnd(Shr(data, 17), 1) # 0
        total_ones == count_bits + (IF parity_bit THEN 1 ELSE 0)
    IN  IF total_ones % 2 = 0 THEN Err("ParityError") ELSE Ok(TRUE)

\* Word::new
Word_new(data, word_type) ==
    IF data > 1048575 THEN Err("InvalidWord")
    ELSE LET parity == validate_parity(data)
         IN  IF ~parity.ok THEN parity
             ELSE Ok([data |-> data, word_type |-> word_type])

\* Word::new_unchecked
Word_new_unchecked(data, word_type) == [data |-> data, word_type |-> word_type]

\* Word::get_data_bits
get_data_bits(word) == BitAnd(Shr(word.data, 1), 65535)

\* Word::get_parity_bit
get_parity_bit(word) == BitAnd(Shr(word.data, 17), 1) # 0

\* Word::get_sync_bits
get_sync_bits(word) == BitAnd(Shr(word.data, 18), 3)

\* faulty variant: the parity bit that makes the count even
calculate_parity_even(data_bits) ==
    IF count_ones(data_bits) % 2 = 0 THEN 0 ELSE 1

\* Word::calculate_parity
calculate_parity(data_bits) ==
    IF count_ones(data_bits) % 2 = 0 THEN 1 ELSE 0

----------------------------------------------------------------------------
(* encoding.rs: ManchesterEncoder, ManchesterDecoder                       *)

\* ManchesterEncoder::encode_bit
encode_bit(bit) == IF bit THEN 1 ELSE 2

\* faulty variant: the partly filled last byte is not pushed
RECURSIVE encode_bits_loop_no_last_push(_, _, _, _, _)
encode_bits_loop_no_last_push(data, i, result, byte, bit_pos) ==
    IF i > Len(data)
    THEN result
    ELSE LET encoded == encode_bit(data[i])
             byte1 == BitOr(byte, Shl(BitAnd(encoded, 3), bit_pos, 8))
             bit_pos1 == bit_pos + 2
         IN  IF bit_pos1 = 8
             THEN encode_bits_loop_no_last_push(data, i + 1,
                                                Append(result, byte1), 0, 0)
             ELSE encode_bits_loop_no_last_push(data, i + 1, result, byte1,
                                                bit_pos1)

\* the body of the for loop of encode_bits, from element i on, and the
\* push of the partly filled last byte
RECURSIVE encode_bits_loop(_, _, _, _, _)
encode_bits_loop(data, i, result, byte, bit_pos) ==
    IF i > Len(data)
    THEN IF bit_pos > 0 THEN Append(result, byte) ELSE result
    ELSE LET encoded == encode_bit(data[i])
             byte1 == BitOr(byte, Shl(BitAnd(encoded, 3), bit_pos, 8))
             bit_pos1 == bit_pos + 2
         IN  IF bit_pos1 = 8
             THEN encode_bits_loop(data, i + 1, Append(result, byte1), 0, 0)
             ELSE encode_bits_loop(data, i + 1, result, byte1, bit_pos1)

\* ManchesterEncoder::encode_bits
encode_bits(data) == encode_bits_loop(data, 1, <<>>, 0, 0)

\* ManchesterEncoder::encode_word
encode_word(word) ==
    LET bits == [i \in 1..20 |-> BitAnd(Shr(word, i - 1), 1) # 0]
    IN  encode_bits(bits)

\* ManchesterDecoder::decode_bit
decode_bit(pair) ==
    LET p == BitAnd(pair, 3)
    IN  IF p = 1 THEN Ok(TRUE)
        ELSE IF p = 2 THEN Ok(FALSE)
        ELSE Err("InvalidManchesterEncoding")

\* the check that follows the loops of decode_bits
decode_bits_end(num_bits, result) ==
    IF Len(result) < num_bits THEN Err("InsufficientData") ELSE Ok(result)

\* faulty variant: the inner loop is not left once num_bits bits are
\* there, so every pair of a byte that is begun is decoded
RECURSIVE decode_bits_loop_whole_bytes(_, _, _, _, _)
decode_bits_loop_whole_bytes(data, num_bits, bi, shift, result) ==
    IF bi > Len(data) THEN decode_bits_end(num_bits, result)
    ELSE IF shift >= 8
    THEN IF Len(result) >= num_bits
         THEN decode_bits_end(num_bits, result)
         ELSE decode_bits_loop_whole_bytes(data, num_bits, bi + 1, 0, result)
    ELSE LET pair == BitAnd(Shr(data[bi], shift), 3)
             bit == decode_bit(pair)
         IN  IF ~bit.ok THEN bit
             ELSE decode_bits_loop_whole_bytes(data, num_bits, bi, shift + 2,
                                               Append(result, bit.val))

\* the nested loops of decode_bits, from byte bi and shift on
RECURSIVE decode_bits_loop(_, _, _, _, _)
decode_bits_loop(data, num_bits, bi, shift, result) ==
    IF bi > Len(data) THEN decode_bits_end(num_bits, result)
    ELSE IF shift >= 8 \/ Len(result) >= num_bits
    THEN \* the inner loop is over, or was left by break
         IF Len(result) >= num_bits
         THEN decode_bits_end(num_bits, result)
         ELSE decode_bits_loop(data, num_bits, bi + 1, 0, result)
    ELSE LET pair == BitAnd(Shr(data[bi], shift), 3)
             bit == decode_bit(pair)
         IN  IF ~bit.ok THEN bit
             ELSE decode_bits_loop(data, num_bits, bi, shift + 2,
                                   Append(result, bit.val))

\* ManchesterDecoder::decode_bits
decode_bits(data, num_bits) == decode_bits_loop(data, num_bits, 1, 0, <<>>)

\* faulty variant: bit i + 1 of word is set for bits[i]
RECURSIVE bits_to_word_shifted(_, _, _)
bits_to_word_shifted(bits, i, word) ==
    IF i > Len(bits) THEN word
    ELSE bits_to_word_shifted(bits, i + 1,
                              IF bits[i] THEN BitOr(word, Shl(1, i, 32))
                              ELSE word)

\* the loop of decode_word that sets bit i of word for each true bits[i]
RECURSIVE bits_to_word(_, _, _)
bits_to_word(bits, i, word) ==
    IF i > Len(bits) THEN word
    ELSE bits_to_word(bits, i + 1,
                      IF bits[i] THEN BitOr(word, Shl(1, i - 1, 32)) ELSE word)

\* ManchesterDecoder::decode_word
decode_word(data) ==
    IF Len(data) < 5 THEN Err("InsufficientData")
    ELSE LET bits == decode_bits(data, 20)
         IN  IF ~bits.ok THEN bits ELSE Ok(bits_to_word(bits.val, 1, 0))

----------------------------------------------------------------------------
(* core.rs: Address; message.rs: SubAddress, Command, StatusFlags,         *)
(* StatusWord.  An Address or SubAddress is modelled by its u8 value.      *)

\* Address::new
Address_new(addr) == IF addr > 31 THEN Err("InvalidAddress") ELSE Ok(addr)

\* faulty variant: address 30 taken for a remote terminal
is_remote_terminal_to_30(address) == address <= 30

\* Address::is_remote_terminal
is_remote_terminal(address) == address < 30

\* SubAddress::new
SubAddress_new(addr) == IF addr > 31 THEN Err("InvalidAddress") ELSE Ok(addr)

CommandTypes == {"Transmit", "Receive"}

\* Command::new
Command_new(address, command_type, sub_address, word_count) ==
    IF word_count > 32 THEN Err("InvalidCommand")
    ELSE Ok([address |-> address, command_type |-> command_type,
             sub_address |-> sub_address, word_count |-> word_count])

\* faulty variant: the parity is that of the low 16 bits of the shifted
\* value, which leaves out the top data bit
Command_to_word_parity_of_shifted(self) ==
    LET w1 == BitOr(0, Shl(BitAnd(self.address, 15), 12, 32))
        w2 == BitOr(w1, IF self.command_type = "Transmit" THEN 2048 ELSE 0)
        w3 == BitOr(w2, Shl(BitAnd(self.sub_address, 31), 6, 32))
        word == BitOr(w3, BitAnd(self.word_count, 63))
        data_in_position == Shl(word, 1, 32)
        parity == calculate_parity(data_in_position % 65536)
        final_word == BitOr(data_in_position, Shl(parity, 17, 32))
    IN  Ok(Word_new_unchecked(final_word, "Command"))

\* Command::to_word
Command_to_word(self) ==
    LET w1 == BitOr(0, Shl(BitAnd(self.address, 15), 12, 32))
        w2 == BitOr(w1, IF self.command_type = "Transmit" THEN 2048 ELSE 0)
        w3 == BitOr(w2, Shl(BitAnd(self.sub_address, 31), 6, 32))
        word == BitOr(w3, BitAnd(self.word_count, 63))
        data_in_position == Shl(word, 1, 32)
        parity == calculate_parity(word % 65536)
        final_word == BitOr(data_in_position, Shl(parity, 17, 32))
    IN  Ok(Word_new_unchecked(final_word, "Command"))

\* faulty variant: a wire word count of 0 is not read as 32
Command_from_word_zero_count(word) ==
    IF word.word_type # "Command" THEN Err("InvalidMessageType")
    ELSE LET data == Shr(word.data, 1)
             address == Address_new(BitAnd(Shr(data, 12), 15))
             command_type == IF BitAnd(data, 2048) # 0 THEN "Transmit"
                             ELSE "Receive"
             sub_address == SubAddress_new(BitAnd(Shr(data, 6), 31))
             word_count == BitAnd(data, 63)
         IN  IF ~address.ok THEN address
             ELSE IF ~sub_address.ok THEN sub_address
             ELSE Ok([address |-> address.val,
                      command_type |-> command_type,
                      sub_address |-> sub_address.val,
                      word_count |-> word_count])

\* Command::from_word
Command_from_word(word) ==
    IF word.word_type # "Command" THEN Err("InvalidMessageType")
    ELSE LET data == Shr(word.data, 1)
             address == Address_new(BitAnd(Shr(data, 12), 15))
             command_type == IF BitAnd(data, 2048) # 0 THEN "Transmit"
                             ELSE "Receive"
             sub_address == SubAddress_new(BitAnd(Shr(data, 6), 31))
             word_count == BitAnd(data, 63)
         IN  IF ~address.ok THEN address
             ELSE IF ~sub_address.ok THEN sub_address
             ELSE Ok([address |-> address.val,
                      command_type |-> command_type,
                      sub_address |-> sub_address.val,
                      word_count |-> IF word_count = 0 THEN 32 ELSE word_count])

\* StatusFlags::new
StatusFlags_new(reserved, subsystem, busy, broadcast, parity) ==
    [reserved |-> reserved, subsystem_flag |-> subsystem, busy |-> busy,
     broadcast |-> broadcast, parity_error |-> parity]

\* faulty variant: the broadcast flag is given the busy flag's bit
StatusFlags_encode_shared_bit(self) ==
    LET f1 == IF self.reserved THEN BitOr(0, 16) ELSE 0
        f2 == IF self.subsystem_flag THEN BitOr(f1, 8) ELSE f1
        f3 == IF self.busy THEN BitOr(f2, 4) ELSE f2
        f4 == IF self.broadcast THEN BitOr(f3, 4) ELSE f3
    IN  IF self.parity_error THEN BitOr(f4, 1) ELSE f4

\* StatusFlags::encode
StatusFlags_encode(self) ==
    LET f1 == IF self.reserved THEN BitOr(0, 16) ELSE 0
        f2 == IF self.subsystem_flag THEN BitOr(f1, 8) ELSE f1
        f3 == IF self.busy THEN BitOr(f2, 4) ELSE f2
        f4 == IF self.broadcast THEN BitOr(f3, 2) ELSE f3
    IN  IF self.parity_error THEN BitOr(f4, 1) ELSE f4

\* StatusFlags::decode
StatusFlags_decode(bits) ==
    [reserved |-> BitAnd(bits, 16) # 0,
     subsystem_flag |-> BitAnd(bits, 8) # 0,
     busy |-> BitAnd(bits, 4) # 0,
     broadcast |-> BitAnd(bits, 2) # 0,
     parity_error |-> BitAnd(bits, 1) # 0]

\* StatusWord::new
StatusWord_new(address, flags, error_code) ==
    IF error_code > 2047 THEN Err("InvalidResponse")
    ELSE Ok([address |-> address, flags |-> flags, error_code |-> error_code])

\* StatusWord::to_word
StatusWord_to_word(self) ==
    LET w1 == BitOr(0, Shl(BitAnd(self.address, 15), 12, 32))
        w2 == BitOr(w1, Shl(BitAnd(StatusFlags_encode(self.flags), 31), 7, 32))
        word == BitOr(w2, BitAnd(self.error_code, 127))
        data_in_position == Shl(word, 1, 32)
        parity == calculate_parity(word % 65536)
        final_word == BitOr(data_in_position, Shl(parity, 17, 32))
    IN  Ok(Word_new_unchecked(final_word, "Status"))

\* faulty variant: the error code is read from the low 11 bits
StatusWord_from_word_11_bits(word) ==
    IF word.word_type # "Status" THEN Err("InvalidMessageType")
    ELSE LET data == Shr(word.data, 1)
             address == Address_new(BitAnd(Shr(data, 12), 15))
             flags == StatusFlags_decode(BitAnd(Shr(data, 7), 31))
             error_code == BitAnd(data, 2047)
         IN  IF ~address.ok THEN address
             ELSE Ok([address |-> address.val, flags |-> flags,
                      error_code |-> error_code])

\* StatusWord::from_word
StatusWord_from_word(word) ==
    IF word.word_type # "Status" THEN Err("InvalidMessageType")
    ELSE LET data == Shr(word.data, 1)
             address == Address_new(BitAnd(Shr(data, 12), 15))
             flags == StatusFlags_decode(BitAnd(Shr(data, 7), 31))
             error_code == BitAnd(data, 127)
         IN  IF ~address.ok THEN address
             ELSE Ok([address |-> address.val, flags |-> flags,
                      error_code |-> error_code])

----------------------------------------------------------------------------
(* parser.rs: Parser.  The parser's only field is its bus.                 *)

Buses == {"BusA", "BusB"}

\* faulty variant: the word is tagged Command
identify_word_type_and_create_as_command(word_value) ==
    Word_new(word_value, "Command")

\* Parser::identify_word_type_and_create
identify_word_type_and_create(word_value) == Word_new(word_value, "Data")

\* Parser::parse_word
parse_word(data) ==
    LET word_value == decode_word(data)
    IN  IF ~word_value.ok THEN word_value
        ELSE identify_word_type_and_create(word_value.val)

\* faulty variant: the loop goes on after a word that fails, and the
\* error of the last failing word is the one returned
RECURSIVE parse_words_loop_last_error(_, _, _)
parse_words_loop_last_error(data, offset, words) ==
    IF offset + 5 <= Len(data)
    THEN LET word == parse_word(SubSeq(data, offset + 1, offset + 5))
             rest == parse_words_loop_last_error(data, offset + 5,
                         IF word.ok THEN Append(words, word.val) ELSE words)
         IN  IF ~rest.ok THEN rest
             ELSE IF ~word.ok THEN word
             ELSE rest
    ELSE Ok(words)

\* the while loop of parse_words, from offset on
RECURSIVE parse_words_loop(_, _, _)
parse_words_loop(data, offset, words) ==
    IF offset + 5 <= Len(data)
    THEN LET word == parse_word(SubSeq(data, offset + 1, offset + 5))
         IN  IF ~word.ok THEN word
             ELSE parse_words_loop(data, offset + 5, Append(words, word.val))
    ELSE Ok(words)

\* Parser::parse_words
parse_words(data) == parse_words_loop(data, 0, <<>>)

\* faulty variant: a word that is not a Data word is skipped, and the
\* Data words after it are taken too
RECURSIVE collect_data_words_skipping(_, _, _)
collect_data_words_skipping(words, i, data_words) ==
    IF i > Len(words) THEN data_words
    ELSE IF words[i].word_type = "Data"
    THEN collect_data_words_skipping(words, i + 1,
                                     Append(data_words, words[i]))
    ELSE collect_data_words_skipping(words, i + 1, data_words)

\* the for loop of parse_message over words[1..]: the Data words up to the
\* first word that is not one
RECURSIVE collect_data_words(_, _, _)
collect_data_words(words, i, data_words) ==
    IF i > Len(words) THEN data_words
    ELSE IF words[i].word_type = "Data"
    THEN collect_data_words(words, i + 1, Append(data_words, words[i]))
    ELSE data_words

\* Parser::parse_message
parse_message(words) ==
    IF words = <<>> THEN Err("InsufficientData")
    ELSE LET first_word == words[1]
         IN  IF first_word.word_type = "Command"
             THEN LET command == Command_from_word(first_word)
                      data_words == collect_data_words(words, 2, <<>>)
                  IN  IF ~command.ok THEN command
                      ELSE IF Len(words) > 1 /\ data_words # <<>>
                      THEN Ok([variant |-> "CommandData",
                               command |-> command.val,
                               data_words |-> data_words])
                      ELSE Ok([variant |-> "CommandOnly",
                               command |-> command.val])
             ELSE IF first_word.word_type = "Status"
             THEN LET status == StatusWord_from_word(first_word)
                  IN  IF ~status.ok THEN status
                      ELSE Ok([variant |-> "Status", status |-> status.val])
             ELSE Err("InvalidMessageType")

\* Parser::parse_transaction
parse_transaction(bus, data) ==
    LET words == parse_words(data)
    IN  IF ~words.ok THEN words
        ELSE IF words.val = <<>> THEN Err("InsufficientData")
        ELSE LET message == parse_message(words.val)
             IN  IF ~message.ok THEN message
                 ELSE Ok([bus |-> bus, message |-> message.val,
                          timestamp_us |-> "None"])

\* Parser::encode_command
encode_command(command) ==
    LET word == Command_to_word(command)
    IN  IF ~word.ok THEN word ELSE Ok(encode_word(word.val.data))

\* Parser::encode_status
encode_status(status) ==
    LET word == StatusWord_to_word(status)
    IN  IF ~word.ok THEN word ELSE Ok(encode_word(word.val.data))

\* the for loop of encode_data_words, from element i on
RECURSIVE encode_data_words_loop(_, _, _)
encode_data_words_loop(data, i, encoded) ==
    IF i > Len(data) THEN Ok(encoded)
    ELSE LET value == data[i]
             parity == calculate_parity(value)
             word_value == BitOr(Shl(parity, 17, 32), Shl(value, 1, 32))
             word == Word_new(word_value, "Data")
         IN  IF ~word.ok THEN word
             ELSE encode_data_words_loop(data, i + 1,
                                         encoded \o encode_word(word.val.data))

\* Parser::encode_data_words
encode_data_words(data) == encode_data_words_loop(data, 1, <<>>)

----------------------------------------------------------------------------
(* protocol.rs: RemoteTerminal, BusController.  The registry is a function *)
(* from the registered u8 addresses to their records, and Instant::now()  *)
(* reads now.                                                              *)

RTStates == {"Idle", "Busy", "Error", "NoResponse"}


\* RemoteTerminal::new
RemoteTerminal_new(address) ==
    [address |-> address, state |-> "Idle", last_seen |-> NoneOption,
     error_count |-> 0, success_count |-> 0]

\* faulty variant: a success leaves the state as it was
RemoteTerminal_record_success_keep_state(self) ==
    [self EXCEPT !.success_count = @ + 1,
                 !.last_seen = Some(now)]

\* RemoteTerminal::record_success
RemoteTerminal_record_success(self) ==
    [self EXCEPT !.success_count = @ + 1,
                 !.state = "Idle",
                 !.last_seen = Some(now)]

\* faulty variant: the time of the error is not stamped
RemoteTerminal_record_error_no_stamp(self) ==
    [self EXCEPT !.error_count = @ + 1,
                 !.state = "Error"]

\* RemoteTerminal::record_error
RemoteTerminal_record_error(self) ==
    [self EXCEPT !.error_count = @ + 1,
                 !.state = "Error",
                 !.last_seen = Some(now)]

\* Instant::elapsed: the time from instant to now, on a clock that only
\* advances
elapsed(instant) == now - instant

\* faulty variant: a record seen exactly timeout ago still responds
is_responding_at_timeout(self, timeout) ==
    IF self.last_seen.some THEN elapsed(self.last_seen.val) <= timeout
    ELSE FALSE

\* RemoteTerminal::is_responding
is_responding(self, timeout) ==
    IF self.last_seen.some THEN elapsed(self.last_seen.val) < timeout
    ELSE FALSE

\* BusController::new: response_timeout, Duration::from_micros(12); the
\* clock now counts microseconds
response_timeout == 12

\* faulty variant: the new record is the only one kept
HashMap_insert_alone(map, key, value) ==
    [k \in {key} |-> value]

\* HashMap::insert: the record at key, replacing the one that was there
HashMap_insert(map, key, value) ==
    [k \in DOMAIN map \cup {key} |-> IF k = key THEN value ELSE map[k]]

\* BusController::register_rt: the registry after the call, and its result
register_rt(rts, address) ==
    IF ~is_remote_terminal(address)
    THEN [rts |-> rts, result |-> Err("InvalidAddress")]
    ELSE [rts |-> HashMap_insert(rts, address, RemoteTerminal_new(address)),
          result |-> Ok(<<>>)]

\* faulty variant: the loop goes on after a rejected address
RECURSIVE register_rts_loop_skipping(_, _, _)
register_rts_loop_skipping(rts, addresses, i) ==
    IF i > Len(addresses) THEN [rts |-> rts, result |-> Ok(<<>>)]
    ELSE LET address == Address_new(addresses[i])
             r == IF address.ok THEN register_rt(rts, address.val)
                  ELSE [rts |-> rts, result |-> address]
             rest == register_rts_loop_skipping(r.rts, addresses, i + 1)
         IN  IF ~r.result.ok THEN [rts |-> rest.rts, result |-> r.result]
             ELSE rest

\* the for loop of register_rts, from addresses[i] on: the first address
\* that Address::new or register_rt rejects ends the call, and the
\* registrations made before it stay
RECURSIVE register_rts_loop(_, _, _)
register_rts_loop(rts, addresses, i) ==
    IF i > Len(addresses) THEN [rts |-> rts, result |-> Ok(<<>>)]
    ELSE LET address == Address_new(addresses[i])
         IN  IF ~address.ok THEN [rts |-> rts, result |-> address]
             ELSE LET r == register_rt(rts, address.val)
                  IN  IF ~r.result.ok THEN r
                      ELSE register_rts_loop(r.rts, addresses, i + 1)

\* BusController::register_rts
register_rts(rts, addresses) == register_rts_loop(rts, addresses, 1)

\* BusController::get_rt
get_rt(rts, address) ==
    IF address \in DOMAIN rts THEN Some(rts[address]) ELSE NoneOption

\* BusController::rt_count
rt_count(rts) == Cardinality(DOMAIN rts)

\* BusController::record_rt_success
record_rt_success(rts, address) ==
    IF address \in DOMAIN rts
    THEN [rts |-> [rts EXCEPT ![address] = RemoteTerminal_record_success(@)],
          result |-> Ok(<<>>)]
    ELSE [rts |-> rts, result |-> Err("InvalidAddress")]

\* BusController::record_rt_error
record_rt_error(rts, address) ==
    IF address \in DOMAIN rts
    THEN [rts |-> [rts EXCEPT ![address] = RemoteTerminal_record_error(@)],
          result |-> Ok(<<>>)]
    ELSE [rts |-> rts, result |-> Err("InvalidAddress")]

\* BusController::get_responding_rts: the records that respond; a Vec in
\* the order of the HashMap's iteration, modelled by the set of its elements
get_responding_rts(rts) ==
    {rts[k] : k \in {j \in DOMAIN rts : is_responding(rts[j], response_timeout)}}

\* the f32 quotient x as f32 / y as f32, kept as the ratio of the two
\* counts (both far below 2^24, where the casts are exact)
f32_div(x, y) == [num |-> x, den |-> y]

\* the f32 literal 0.0
f32_zero == [num |-> 0, den |-> 1]

\* faulty variant: the rate is that of the successes
get_rt_stats_success_rate(rts, address) ==
    LET rt == get_rt(rts, address)
    IN  IF ~rt.some THEN NoneOption
        ELSE Some([address |-> rt.val.address,
                   state |-> rt.val.state,
                   success_count |-> rt.val.success_count,
                   error_count |-> rt.val.error_count,
                   error_rate |->
                       IF rt.val.success_count + rt.val.error_count > 0
                       THEN f32_div(rt.val.success_count,
                                    rt.val.success_count + rt.val.error_count)
                       ELSE f32_zero,
                   is_responding |->
                       is_responding(rt.val, response_timeout)])

\* BusController::get_rt_stats
get_rt_stats(rts, address) ==
    LET rt == get_rt(rts, address)
    IN  IF ~rt.some THEN NoneOption
        ELSE Some([address |-> rt.val.address,
                   state |-> rt.val.state,
                   success_count |-> rt.val.success_count,
                   error_count |-> rt.val.error_count,
                   error_rate |->
                       IF rt.val.success_count + rt.val.error_count > 0
                       THEN f32_div(rt.val.error_count,
                                    rt.val.success_count + rt.val.error_count)
                       ELSE f32_zero,
                   is_responding |->
                       is_responding(rt.val, response_timeout)])

----------------------------------------------------------------------------
(* Inputs.                                                                 *)

\* every sequence of logical bits of length 0..MaxBits
BitSeqs == UNION {[1..n -> BOOLEAN] : n \in 0..MaxBits}

RECURSIVE SumPow2(_)
SumPow2(S) ==
    IF S = {} THEN 0
    ELSE LET i == CHOOSE x \in S : TRUE IN Pow2(i) + SumPow2(S \ {i})

\* the sets of at most MaxSetBits bit positions below nbits
BitPositions(nbits) ==
    {{}} \cup {{f[k] : k \in 1..MaxSetBits} : f \in [1..MaxSetBits -> 0..(nbits - 1)]}

\* the nbits-bit values with at most MaxSetBits bits set, or cleared
SampleValues(nbits) ==
    {SumPow2(S) : S \in BitPositions(nbits)}
        \cup {Pow2(nbits) - 1 - SumPow2(S) : S \in BitPositions(nbits)}

\* the 20-bit raw word values drawn
Words20 == SampleValues(20)

----------------------------------------------------------------------------
(* The Manchester codec: encode, then decode what was encoded.             *)

\* most bytes in a received buffer given to decode_bits
MaxBytes == 3

\* received bytes, pairs from the least significant: 102 and 153 hold four
\* valid pairs, 6 holds 10 01 00 00 (a partly filled byte), 229 holds
\* 01 01 10 11, and 0 holds four 00 pairs
ByteSamples == {102, 153, 6, 229, 0}

\* the buffers given to decode_bits
RawBuffers == UNION {[1..n -> ByteSamples] : n \in 0..MaxBytes}

\* the buffers given to decode_word: one byte fewer than a word, a word,
\* and a word with a byte after it
RawWordBuffers == UNION {[1..n -> {102, 6, 0}] : n \in 4..6}

ManchesterInit ==
    /\ pc = "start"
    /\ arg \in {[kind |-> "bits", bits |-> b] : b \in BitSeqs}
                \cup {[kind |-> "word", word |-> w] : w \in Words20}
                \cup {[kind |-> "raw_bits", bytes |-> b, num_bits |-> n] :
                           b \in RawBuffers, n \in 0..(4 * MaxBytes + 1)}
                \cup {[kind |-> "raw_word", bytes |-> b] :
                           b \in RawWordBuffers}
    /\ wire = <<>>
    /\ ret = None
    /\ remote_terminals = <<>>
    /\ now = 0

EncodeBits ==
    /\ pc = "start" /\ arg.kind = "bits"
    /\ wire' = encode_bits(arg.bits)
    /\ pc' = "encoded"
    /\ UNCHANGED <<arg, ret, remote_terminals, now>>

DecodeBits ==
    /\ pc = "encoded" /\ arg.kind = "bits"
    /\ ret' = decode_bits(wire, Len(arg.bits))
    /\ pc' = "decoded"
    /\ UNCHANGED <<arg, wire, remote_terminals, now>>

EncodeWord ==
    /\ pc = "start" /\ arg.kind = "word"
    /\ wire' = encode_word(arg.word)
    /\ pc' = "encoded"
    /\ UNCHANGED <<arg, ret, remote_terminals, now>>

DecodeWord ==
    /\ pc = "encoded" /\ arg.kind = "word"
    /\ ret' = decode_word(wire)
    /\ pc' = "decoded"
    /\ UNCHANGED <<arg, wire, remote_terminals, now>>

DecodeRawBits ==
    /\ pc = "start" /\ arg.kind = "raw_bits"
    /\ wire' = arg.bytes
    /\ ret' = decode_bits(arg.bytes, arg.num_bits)
    /\ pc' = "decoded"
    /\ UNCHANGED <<arg, remote_terminals, now>>

DecodeRawWord ==
    /\ pc = "start" /\ arg.kind = "raw_word"
    /\ wire' = arg.bytes
    /\ ret' = decode_word(arg.bytes)
    /\ pc' = "decoded"
    /\ UNCHANGED <<arg, remote_terminals, now>>

ManchesterNext ==
    \/ EncodeBits \/ DecodeBits \/ EncodeWord \/ DecodeWord
    \/ DecodeRawBits \/ DecodeRawWord

SpecManchester == ManchesterInit /\ [][ManchesterNext]_vars

----------------------------------------------------------------------------
(* Words and messages: a Command or a StatusWord is built from its fields, *)
(* encoded to a Word and decoded again; a raw value is made a Word by      *)
(* Word::new or Word::new_unchecked and decoded.                           *)

\* the sub-addresses drawn (SubAddress::new accepts 0..31)
SubAddressSamples == {0, 1, 10, 21, 31}

\* the word counts drawn: Command::new accepts 0..32
WordCounts == 0..33

\* the error codes drawn: StatusWord::new accepts 0..0x7FF
ErrorCodeSamples == {0, 1, 66, 127, 128, 255, 2047, 2048}

AllStatusFlags ==
    {StatusFlags_new(r, s, b, bc, p) : r \in BOOLEAN, s \in BOOLEAN,
        b \in BOOLEAN, bc \in BOOLEAN, p \in BOOLEAN}

MessageInit ==
    /\ pc = "start"
    /\ arg \in {[kind |-> "command", address |-> a, command_type |-> t,
                 sub_address |-> sa, word_count |-> wc] :
                    a \in 0..31, t \in CommandTypes,
                    sa \in SubAddressSamples, wc \in WordCounts}
          \cup {[kind |-> "status", address |-> a, flags |-> f,
                 error_code |-> e] :
                    a \in 0..31, f \in AllStatusFlags, e \in ErrorCodeSamples}
          \cup {[kind |-> "raw", data |-> d, word_type |-> t] :
                    d \in SampleValues(21), t \in WordTypes}
    /\ wire = <<>>
    /\ ret = None
    /\ remote_terminals = <<>>
    /\ now = 0

CommandNew ==
    /\ pc = "start" /\ arg.kind = "command"
    /\ ret' = Command_new(arg.address, arg.command_type, arg.sub_address,
                          arg.word_count)
    /\ pc' = IF ret'.ok THEN "built" ELSE "rejected"
    /\ UNCHANGED <<arg, wire, remote_terminals, now>>

CommandToWord ==
    /\ pc = "built" /\ arg.kind = "command"
    /\ LET r == Command_to_word(ret.val)
       IN  IF r.ok
           THEN wire' = r.val /\ pc' = "encoded" /\ UNCHANGED ret
           ELSE ret' = r /\ pc' = "rejected" /\ UNCHANGED wire
    /\ UNCHANGED <<arg, remote_terminals, now>>

StatusWordNew ==
    /\ pc = "start" /\ arg.kind = "status"
    /\ ret' = StatusWord_new(arg.address, arg.flags, arg.error_code)
    /\ pc' = IF ret'.ok THEN "built" ELSE "rejected"
    /\ UNCHANGED <<arg, wire, remote_terminals, now>>

StatusWordToWord ==
    /\ pc = "built" /\ arg.kind = "status"
    /\ LET r == StatusWord_to_word(ret.val)
       IN  IF r.ok
           THEN wire' = r.val /\ pc' = "encoded" /\ UNCHANGED ret
           ELSE ret' = r /\ pc' = "rejected" /\ UNCHANGED wire
    /\ UNCHANGED <<arg, remote_terminals, now>>

WordNew ==
    /\ pc = "start" /\ arg.kind = "raw"
    /\ ret' = Word_new(arg.data, arg.word_type)
    /\ IF ret'.ok
       THEN wire' = ret'.val /\ pc' = "checked"
       ELSE pc' = "rejected" /\ UNCHANGED wire
    /\ UNCHANGED <<arg, remote_terminals, now>>

WordNewUnchecked ==
    /\ pc = "start" /\ arg.kind = "raw"
    /\ wire' = Word_new_unchecked(arg.data, arg.word_type)
    /\ pc' = "unchecked"
    /\ UNCHANGED <<arg, ret, remote_terminals, now>>

CommandFromWord ==
    /\ pc \in {"encoded", "checked", "unchecked"}
    /\ ret' = Command_from_word(wire)
    /\ pc' = "command_decoded"
    /\ UNCHANGED <<arg, wire, remote_terminals, now>>

StatusWordFromWord ==
    /\ pc \in {"encoded", "checked", "unchecked"}
    /\ ret' = StatusWord_from_word(wire)
    /\ pc' = "status_decoded"
    /\ UNCHANGED <<arg, wire, remote_terminals, now>>

MessageNext ==
    \/ CommandNew \/ CommandToWord \/ StatusWordNew \/ StatusWordToWord
    \/ WordNew \/ WordNewUnchecked \/ CommandFromWord \/ StatusWordFromWord

SpecMessage == MessageInit /\ [][MessageNext]_vars

----------------------------------------------------------------------------
(* The parser: a caller encodes a command and data words into a buffer,    *)
(* or holds captured bytes, and parses the buffer.                         *)

\* most data words in an encoded frame
MaxDataWords == 2
\* most whole words in a captured buffer
MaxCaptureWords == 2
\* most typed words in a sequence given to parse_message
MaxWords == 4

\* the 16-bit values the sequences of several data words are drawn from
DataSamples == {0, 4660, 65535}

DataSeqs ==
    UNION {[1..n -> DataSamples] : n \in 0..MaxDataWords}
        \cup {<<v>> : v \in SampleValues(16)}

\* the commands encoded into frames
CommandSamples ==
    {Command_new(a, t, 10, wc).val :
        a \in {5, 15}, t \in CommandTypes, wc \in {16, 32}}

\* raw 20-bit values on the captured line: 131072 and 9320 pass Word::new,
\* 0 and 1048575 fail its parity check
CaptureWords == {0, 131072, 9320, 1048575}

RECURSIVE Flatten(_)
Flatten(seqs) ==
    IF seqs = <<>> THEN <<>> ELSE Head(seqs) \o Flatten(Tail(seqs))

\* the encodings of up to MaxCaptureWords raw words
CleanCaptures ==
    {Flatten([i \in 1..Len(ws) |-> encode_word(ws[i])]) :
        ws \in UNION {[1..n -> CaptureWords] : n \in 0..MaxCaptureWords}}

\* captured buffers: a clean capture cut short after any byte, and the
\* same with the third byte of one 5-byte group replaced by 0 (four 00
\* pairs, no valid Manchester)
Captures ==
    LET cut == UNION {{SubSeq(b, 1, n) : n \in 0..Len(b)} : b \in CleanCaptures}
    IN  cut \cup UNION {{[b EXCEPT ![k] = 0] : k \in {j \in 1..Len(b) : j % 5 = 3}} :
                          b \in cut}

\* typed words, as Word::new_unchecked builds them: every tag, on two raw
\* values
TypedWords ==
    {Word_new_unchecked(d, t) : d \in {131072, 9320}, t \in WordTypes}

TypedWordSeqs == UNION {[1..n -> TypedWords] : n \in 0..MaxWords}

ParserInit ==
    /\ pc = "start"
    /\ arg \in {[kind |-> "frame", bus |-> b, command |-> c, data |-> d] :
                    b \in Buses, c \in CommandSamples,
                    d \in UNION {[1..n -> DataSamples] : n \in 0..MaxDataWords}}
          \cup {[kind |-> "data", bus |-> "BusA", data |-> d] : d \in DataSeqs}
          \cup {[kind |-> "capture", bus |-> "BusA", bytes |-> x] :
                    x \in Captures}
          \cup {[kind |-> "words", bus |-> "BusA", words |-> w] :
                    w \in TypedWordSeqs}
    /\ wire = <<>>
    /\ ret = None
    /\ remote_terminals = <<>>
    /\ now = 0

EncodeCommand ==
    /\ pc = "start" /\ arg.kind = "frame"
    /\ LET r == encode_command(arg.command)
       IN  IF r.ok
           THEN wire' = r.val /\ pc' = "command_encoded" /\ UNCHANGED ret
           ELSE ret' = r /\ pc' = "rejected" /\ UNCHANGED wire
    /\ UNCHANGED <<arg, remote_terminals, now>>

EncodeDataWords ==
    /\ \/ pc = "command_encoded" /\ arg.kind = "frame"
       \/ pc = "start" /\ arg.kind = "data"
    /\ LET r == encode_data_words(arg.data)
       IN  IF r.ok
           THEN wire' = wire \o r.val /\ pc' = "encoded" /\ UNCHANGED ret
           ELSE ret' = r /\ pc' = "rejected" /\ UNCHANGED wire
    /\ UNCHANGED <<arg, remote_terminals, now>>

Capture ==
    /\ pc = "start" /\ arg.kind = "capture"
    /\ wire' = arg.bytes
    /\ pc' = "encoded"
    /\ UNCHANGED <<arg, ret, remote_terminals, now>>

ParseWords ==
    /\ pc = "encoded"
    /\ ret' = parse_words(wire)
    /\ pc' = "words_parsed"
    /\ UNCHANGED <<arg, wire, remote_terminals, now>>

ParseTransaction ==
    /\ pc = "encoded"
    /\ ret' = parse_transaction(arg.bus, wire)
    /\ pc' = "transaction_parsed"
    /\ UNCHANGED <<arg, wire, remote_terminals, now>>

ParseMessage ==
    /\ pc = "start" /\ arg.kind = "words"
    /\ ret' = parse_message(arg.words)
    /\ pc' = "message_parsed"
    /\ UNCHANGED <<arg, wire, remote_terminals, now>>

ParserNext ==
    \/ EncodeCommand \/ EncodeDataWords \/ Capture
    \/ ParseWords \/ ParseTransaction \/ ParseMessage

SpecParser == ParserInit /\ [][ParserNext]_vars

----------------------------------------------------------------------------
(* The Bus Controller: calls on one controller, and the clock advancing    *)
(* between them.  ret is the last call: its name, argument and result.     *)

\* a counter of a record is not incremented past this
MaxCount == 2
\* the clock (in microseconds) does not advance past this
MaxTime == 12
\* the clock is read this much later after each advance: half the response
\* timeout, so that a record is seen less than the timeout and exactly the
\* timeout ago
ClockSteps == {6}

\* the slices register_rts is called with: none, two remote terminals, one
\* twice, and a remote terminal on either side of the reserved address 30
\* and of 32, which Address::new rejects
AddressLists ==
    {<<>>, <<0, 29>>, <<29, 29>>, <<29, 30, 0>>, <<0, 32, 29>>}

\* the addresses the calls are made with (Address::new accepts 0..31):
\* two remote terminals, the reserved address 30 and broadcast
AddressSamples == {0, 29, 30, 31}

BCInit ==
    /\ pc = "idle"
    /\ arg = <<>>
    /\ wire = <<>>
    /\ ret = [op |-> "new", address |-> 0, result |-> Ok(<<>>)]
    /\ remote_terminals = <<>>
    /\ now = 0

RegisterRt(address) ==
    /\ LET r == register_rt(remote_terminals, address)
       IN  /\ remote_terminals' = r.rts
           /\ ret' = [op |-> "register_rt", address |-> address,
                      result |-> r.result]
    /\ UNCHANGED <<pc, arg, wire, now>>

RecordRtSuccess(address) ==
    /\ address \in DOMAIN remote_terminals =>
           remote_terminals[address].success_count < MaxCount
    /\ LET r == record_rt_success(remote_terminals, address)
       IN  /\ remote_terminals' = r.rts
           /\ ret' = [op |-> "record_rt_success", address |-> address,
                      result |-> r.result]
    /\ UNCHANGED <<pc, arg, wire, now>>

RecordRtError(address) ==
    /\ address \in DOMAIN remote_terminals =>
           remote_terminals[address].error_count < MaxCount
    /\ LET r == record_rt_error(remote_terminals, address)
       IN  /\ remote_terminals' = r.rts
           /\ ret' = [op |-> "record_rt_error", address |-> address,
                      result |-> r.result]
    /\ UNCHANGED <<pc, arg, wire, now>>

RegisterRts(addresses) ==
    /\ LET r == register_rts(remote_terminals, addresses)
       IN  /\ remote_terminals' = r.rts
           /\ ret' = [op |-> "register_rts", addresses |-> addresses,
                      result |-> r.result]
    /\ UNCHANGED <<pc, arg, wire, now>>

GetRespondingRts ==
    /\ ret' = [op |-> "get_responding_rts",
               result |-> get_responding_rts(remote_terminals)]
    /\ UNCHANGED <<pc, arg, wire, remote_terminals, now>>

GetRtStats(address) ==
    /\ ret' = [op |-> "get_rt_stats", address |-> address,
               result |-> get_rt_stats(remote_terminals, address)]
    /\ UNCHANGED <<pc, arg, wire, remote_terminals, now>>

Tick ==
    /\ \E d \in ClockSteps :
           /\ now + d <= MaxTime
           /\ now' = now + d
    /\ UNCHANGED <<pc, arg, wire, ret, remote_terminals>>

BCNext ==
    \/ \E address \in AddressSamples : RegisterRt(address)
    \/ \E addresses \in AddressLists : RegisterRts(addresses)
    \/ \E address \in AddressSamples : RecordRtSuccess(address)
    \/ \E address \in AddressSamples : RecordRtError(address)
    \/ GetRespondingRts
    \/ \E address \in AddressSamples : GetRtStats(address)
    \/ Tick

SpecBC == BCInit /\ [][BCNext]_vars

----------------------------------------------------------------------------
(* The claims.  Each is checked under the specification of the part of    *)
(* the program it is about.                                               *)

\* bit i of x
BitOf(x, i) == (x \div Pow2(i)) % 2

\* the word-count field of a word on the wire: data bits[5:0]
WireWordCount(word) == (word.data \div 2) % 64

\* the number of set bits of x among the bit positions S
OnesIn(x, S) == Cardinality({i \in S : BitOf(x, i) = 1})

\* this step is the call op(a) on the controller
IsCall(op, a) == ret'.op = op /\ ret'.address = a /\ now' = now

\* every record but the one at address a is as it was
OthersUnchanged(a) ==
    /\ DOMAIN remote_terminals' \ {a} = DOMAIN remote_terminals \ {a}
    /\ \A b \in DOMAIN remote_terminals \ {a} :
           remote_terminals'[b] = remote_terminals[b]

(* C1: parse_transaction applied to the bytes of one encoded Command word  *)
(* followed by the bytes of N encoded Data words returns a Transaction     *)
(* whose message is CommandData with exactly N data words when N >= 1,     *)
(* and CommandOnly when N = 0.                                             *)
C1_ParseEncodedFrame ==
    (arg.kind = "frame" /\ pc = "transaction_parsed") =>
        /\ ret.ok
        /\ IF Len(arg.data) >= 1
           THEN /\ ret.val.message.variant = "CommandData"
                /\ Len(ret.val.message.data_words) = Len(arg.data)
           ELSE ret.val.message.variant = "CommandOnly"

(* C2: for every Command with address <= 15, sub-address <= 31 and word    *)
(* count in 1..32, from_word(to_word(cmd)) equals cmd in all four fields;  *)
(* and a Command-tagged word whose wire word-count field is 0 decodes to   *)
(* word count 32.                                                          *)
C2_CommandRoundTrip ==
    /\ (/\ arg.kind = "command" /\ pc = "command_decoded"
        /\ arg.address <= 15 /\ arg.sub_address <= 31
        /\ arg.word_count \in 1..32)
       => /\ ret.ok
          /\ ret.val.address = arg.address
          /\ ret.val.command_type = arg.command_type
          /\ ret.val.sub_address = arg.sub_address
          /\ ret.val.word_count = arg.word_count
    /\ (/\ pc = "command_decoded" /\ wire.word_type = "Command"
        /\ WireWordCount(wire) = 0)
       => (ret.ok /\ ret.val.word_count = 32)

\* a command with word count 32 went round
C2_Witness ==
    /\ arg.kind = "command" /\ pc = "command_decoded"
    /\ arg.address = 15 /\ arg.word_count = 32 /\ arg.sub_address = 31
    /\ ret.ok /\ ret.val.word_count = 32 /\ ret.val.address = 15

(* C3: for every StatusWord with address <= 15, any combination of the     *)
(* five flags and error code <= 0x7F, from_word(to_word(status)) equals    *)
(* the original in address, each flag and error code.                      *)
C3_StatusRoundTrip ==
    (/\ arg.kind = "status" /\ pc = "status_decoded"
     /\ arg.address <= 15 /\ arg.error_code <= 127)
    => /\ ret.ok
       /\ ret.val.address = arg.address
       /\ ret.val.flags.reserved = arg.flags.reserved
       /\ ret.val.flags.subsystem_flag = arg.flags.subsystem_flag
       /\ ret.val.flags.busy = arg.flags.busy
       /\ ret.val.flags.broadcast = arg.flags.broadcast
       /\ ret.val.flags.parity_error = arg.flags.parity_error
       /\ ret.val.error_code = arg.error_code

\* a status word with busy and broadcast set and error code 0x7F went round
C3_Witness ==
    /\ arg.kind = "status" /\ pc = "status_decoded"
    /\ arg.address = 15 /\ arg.error_code = 127
    /\ arg.flags.busy /\ arg.flags.broadcast /\ ~arg.flags.reserved
    /\ ret.ok /\ ret.val.error_code = 127 /\ ret.val.flags.busy

(* C4: parse_transaction fails with InsufficientData whenever the input    *)
(* buffer is empty or its length is not a multiple of 5 bytes.             *)
C4_PartialWordInsufficientData ==
    (/\ pc = "transaction_parsed"
     /\ (Len(wire) = 0 \/ Len(wire) % 5 # 0))
    => ret = Err("InsufficientData")

(* C5: for every logical bit sequence b (the empty one and lengths that    *)
(* are no multiple of 4 included), encode_bits(b) has ceil(len(b)/4) bytes *)
(* and decode_bits(encode_bits(b), len(b)) succeeds and equals b.          *)
C5_BitsRoundTrip ==
    (arg.kind = "bits") =>
        /\ pc \in {"encoded", "decoded"} =>
               Len(wire) = (Len(arg.bits) + 3) \div 4
        /\ pc = "decoded" => (ret.ok /\ ret.val = arg.bits)

\* a sequence whose last byte is partly filled was encoded and decoded
C5_Witness ==
    /\ arg.kind = "bits" /\ pc = "decoded"
    /\ Len(arg.bits) = 6 /\ Len(wire) = 2
    /\ ret.ok /\ ret.val = arg.bits

(* C6: for every 20-bit value w, encode_word(w) is exactly 5 bytes and     *)
(* decode_word(encode_word(w)) succeeds and equals w.                      *)
C6_WordRoundTrip ==
    (arg.kind = "word") =>
        /\ pc \in {"encoded", "decoded"} => Len(wire) = 5
        /\ pc = "decoded" => (ret.ok /\ ret.val = arg.word)

\* a word with bits set in its first and in its last byte went round
C6_Witness ==
    /\ arg.kind = "word" /\ pc = "decoded"
    /\ arg.word = 524289 /\ Len(wire) = 5
    /\ ret.ok /\ ret.val = 524289

(* C7 as stated: Word::new(data, t) fails with InvalidWord when            *)
(* data > 0xFFFFF; for data <= 0xFFFFF it succeeds exactly when the 16     *)
(* data bits (bits 16-1) together with the parity bit (bit 17) hold an odd *)
(* number of set bits, and fails with ParityError otherwise.               *)
C7_WordNewDataAndParityBits ==
    (arg.kind = "raw" /\ pc \in {"checked", "rejected"}) =>
        IF arg.data > 1048575 THEN ret = Err("InvalidWord")
        ELSE IF OnesIn(arg.data, 1..17) % 2 = 1
             THEN ret.ok /\ ret.val.data = arg.data
                  /\ ret.val.word_type = arg.word_type
             ELSE ret = Err("ParityError")

(* C7 amended: Word::new(data, t) fails with InvalidWord when              *)
(* data > 0xFFFFF; for data <= 0xFFFFF it succeeds exactly when the start  *)
(* bit (bit 0), the 16 data bits (bits 16-1) and the parity bit (bit 17)   *)
(* together hold an odd number of set bits, and fails with ParityError     *)
(* otherwise.                                                              *)
C7_WordNewStartDataAndParityBits ==
    (arg.kind = "raw" /\ pc \in {"checked", "rejected"}) =>
        IF arg.data > 1048575 THEN ret = Err("InvalidWord")
        ELSE IF OnesIn(arg.data, 0..17) % 2 = 1
             THEN ret.ok /\ ret.val.data = arg.data
                  /\ ret.val.word_type = arg.word_type
             ELSE ret = Err("ParityError")

\* Word::new accepted a value whose only set bit is the start bit
C7_Witness ==
    /\ arg.kind = "raw" /\ pc = "checked"
    /\ arg.data = 1 /\ ret.ok /\ ret.val.data = 1

(* C8: for every sequence d of 16-bit values, encode_data_words(d)         *)
(* succeeds, produces exactly 5 * len(d) bytes, and parse_words on those   *)
(* bytes returns len(d) Data-tagged words whose 16 data bits equal d       *)
(* element by element, in order.                                           *)
C8_DataWordsRoundTrip ==
    (arg.kind = "data") =>
        /\ pc # "rejected"
        /\ pc \in {"encoded", "words_parsed", "transaction_parsed"} =>
               Len(wire) = 5 * Len(arg.data)
        /\ pc = "words_parsed" =>
               /\ ret.ok
               /\ Len(ret.val) = Len(arg.data)
               /\ \A i \in 1..Len(arg.data) :
                      /\ ret.val[i].word_type = "Data"
                      /\ (ret.val[i].data \div 2) % 65536 = arg.data[i]

\* two data words, one with an even and one with an odd number of set
\* bits, were encoded to 10 bytes and parsed back in order
C8_Witness ==
    /\ arg.kind = "data" /\ pc = "words_parsed"
    /\ arg.data = <<65535, 4660>> /\ Len(wire) = 10
    /\ ret.ok /\ Len(ret.val) = 2
    /\ (ret.val[1].data \div 2) % 65536 = 65535
    /\ (ret.val[2].data \div 2) % 65536 = 4660

C10_RecordRt ==
    [][\A a \in 0..31 :
        /\ IsCall("record_rt_success", a) =>
            IF a \notin DOMAIN remote_terminals
            THEN /\ ret'.result = Err("InvalidAddress")
                 /\ remote_terminals' = remote_terminals
            ELSE /\ ret'.result.ok
                 /\ a \in DOMAIN remote_terminals'
                 /\ remote_terminals'[a].success_count =
                        remote_terminals[a].success_count + 1
                 /\ remote_terminals'[a].state = "Idle"
                 /\ remote_terminals'[a].last_seen = Some(now)
                 /\ remote_terminals'[a].error_count =
                        remote_terminals[a].error_count
                 /\ remote_terminals'[a].address = remote_terminals[a].address
                 /\ OthersUnchanged(a)
        /\ IsCall("record_rt_error", a) =>
            IF a \notin DOMAIN remote_terminals
            THEN /\ ret'.result = Err("InvalidAddress")
                 /\ remote_terminals' = remote_terminals
            ELSE /\ ret'.result.ok
                 /\ a \in DOMAIN remote_terminals'
                 /\ remote_terminals'[a].error_count =
                        remote_terminals[a].error_count + 1
                 /\ remote_terminals'[a].state = "Error"
                 /\ remote_terminals'[a].last_seen = Some(now)
                 /\ remote_terminals'[a].success_count =
                        remote_terminals[a].success_count
                 /\ remote_terminals'[a].address = remote_terminals[a].address
                 /\ OthersUnchanged(a)]_vars

\* an error was recorded for address 0 at time 6, after a success at time
\* 0, while address 29 keeps the success recorded for it
C10_Witness ==
    /\ ret = [op |-> "record_rt_error", address |-> 0, result |-> Ok(<<>>)]
    /\ 0 \in DOMAIN remote_terminals /\ 29 \in DOMAIN remote_terminals
    /\ remote_terminals[0].success_count = 1
    /\ remote_terminals[0].error_count = 1
    /\ remote_terminals[0].state = "Error"
    /\ remote_terminals[0].last_seen = Some(6)
    /\ remote_terminals[29].success_count = 1
    /\ remote_terminals[29].state = "Idle"
    /\ remote_terminals[29].last_seen = Some(0)

\* the record at address a was last seen less than the response timeout ago
SeenWithinTimeout(a) ==
    /\ remote_terminals[a].last_seen # NoneOption
    /\ now - remote_terminals[a].last_seen.val < 12

\* is_responding of the record at address a, with the controller's timeout
Responding(a) == is_responding(remote_terminals[a], response_timeout)

\* the index of the first element of addresses that register_rts rejects,
\* or one past the end when there is none
FirstRejected(addresses) ==
    LET bad == {i \in 1..Len(addresses) : addresses[i] >= 30}
    IN  IF bad = {} THEN Len(addresses) + 1
        ELSE CHOOSE i \in bad : \A j \in bad : i <= j

\* the addresses a call register_rts(addresses) registers
RegisteredBy(addresses) ==
    {addresses[i] : i \in 1..(FirstRejected(addresses) - 1)}

\* the addresses this step registers (again)
RegisteredNow ==
    IF ret'.op = "register_rt" /\ now' = now /\ ret'.result.ok
    THEN {ret'.address}
    ELSE IF ret'.op = "register_rts" /\ now' = now
    THEN RegisteredBy(ret'.addresses)
    ELSE {}

\* the addresses this step records a success or an error for
RecordedNow ==
    IF /\ ret'.op \in {"record_rt_success", "record_rt_error"}
       /\ now' = now /\ ret'.result.ok
    THEN {ret'.address}
    ELSE {}

(* C11: on a clock that only advances, is_responding(timeout) is true      *)
(* exactly when a last-seen time exists and less than timeout has elapsed  *)
(* since it: false for a freshly registered or re-registered record, true  *)
(* after a success or error event while elapsed < timeout, false from the  *)
(* moment elapsed >= timeout until the next event; get_responding_rts      *)
(* returns exactly the records for which this holds with the controller's  *)
(* response_timeout.                                                       *)
C11_IsResponding ==
    [][/\ now' >= now
       /\ \A a \in DOMAIN remote_terminals' :
              /\ Responding(a)' <=> SeenWithinTimeout(a)'
              /\ a \in RegisteredNow => ~Responding(a)'
              /\ a \in RecordedNow => Responding(a)'
              /\ (a \notin RecordedNow /\ a \in DOMAIN remote_terminals
                    /\ ~Responding(a)) => ~Responding(a)'
       /\ (ret'.op = "get_responding_rts" /\ now' = now) =>
              ret'.result = {remote_terminals[a] :
                                a \in {b \in DOMAIN remote_terminals :
                                          SeenWithinTimeout(b)}}]_vars

\* get_responding_rts returned, at time 12, the record seen at time 6 and
\* not the one seen at time 0
C11_Witness ==
    /\ ret.op = "get_responding_rts"
    /\ now = 12
    /\ 0 \in DOMAIN remote_terminals /\ 29 \in DOMAIN remote_terminals
    /\ remote_terminals[0].last_seen = Some(0)
    /\ remote_terminals[29].last_seen = Some(6)
    /\ ret.result = {remote_terminals[29]}

(* C12: get_rt_stats(a) for a registered address reports the record's      *)
(* state and counters and an error rate of 0 when success_count +          *)
(* error_count = 0, and otherwise error_count / (error_count +             *)
(* success_count); it returns None for an unregistered address.            *)
C12_GetRtStats ==
    [][\A a \in 0..31 :
        IsCall("get_rt_stats", a) =>
            IF a \notin DOMAIN remote_terminals
            THEN ret'.result = NoneOption
            ELSE LET rt == remote_terminals[a]
                     stats == ret'.result.val
                     total == rt.success_count + rt.error_count
                 IN  /\ ret'.result # NoneOption
                     /\ stats.state = rt.state
                     /\ stats.success_count = rt.success_count
                     /\ stats.error_count = rt.error_count
                     /\ stats.error_rate.den > 0
                     /\ IF total = 0
                        THEN stats.error_rate.num = 0
                        ELSE stats.error_rate.num * total =
                                 rt.error_count * stats.error_rate.den]_vars

\* the statistics of address 0 after one success and one error: rate 1/2
C12_Witness ==
    /\ ret.op = "get_rt_stats" /\ ret.address = 0
    /\ 0 \in DOMAIN remote_terminals
    /\ remote_terminals[0].success_count = 1
    /\ remote_terminals[0].error_count = 1
    /\ ret.result # NoneOption
    /\ ret.result.val.error_rate.num * 2 = ret.result.val.error_rate.den

C17_StateIdleOrError ==
    [][\A a \in DOMAIN remote_terminals' :
          /\ remote_terminals'[a].state \in {"Idle", "Error"}
          /\ a \in RegisteredNow => remote_terminals'[a].state = "Idle"
          /\ a \in RecordedNow =>
                 (remote_terminals'[a].state = "Error"
                      <=> ret'.op = "record_rt_error")
          /\ (a \notin RegisteredNow /\ a \notin RecordedNow) =>
                 (/\ a \in DOMAIN remote_terminals
                  /\ remote_terminals'[a].state = remote_terminals[a].state)
      ]_vars

\* at time 12 the record of address 0, whose last event was an error at
\* time 0, no longer responds and is still in state Error, and the record
\* of address 29, with a success after an error, is Idle
C17_Witness ==
    /\ now = 12
    /\ 0 \in DOMAIN remote_terminals /\ 29 \in DOMAIN remote_terminals
    /\ remote_terminals[0].last_seen = Some(0)
    /\ remote_terminals[0].state = "Error"
    /\ ~Responding(0)
    /\ remote_terminals[29].error_count = 1
    /\ remote_terminals[29].success_count = 1
    /\ remote_terminals[29].state = "Idle"

(* C13: every Command returned by Command::new or Command::from_word has a *)
(* word count in 1..32: Command::new rejects larger counts with            *)
(* InvalidCommand, and from_word maps the wire value 0 to 32 and never     *)
(* yields a count above 32.                                                *)
C13_WordCountInRange ==
    /\ (arg.kind = "command" /\ pc = "built") =>
           ret.val.word_count \in 1..32
    /\ (arg.kind = "command" /\ pc \in {"built", "rejected"}
            /\ arg.word_count > 32) =>
           ret = Err("InvalidCommand")
    /\ (pc = "command_decoded" /\ ret.ok) =>
           ret.val.word_count \in 1..32

(* C14: StatusWord::new fails with InvalidResponse whenever error_code     *)
(* does not fit the 7-bit error-code field (error_code > 0x7F), so every   *)
(* StatusWord it returns carries an error code that to_word encodes        *)
(* without loss.                                                           *)
C14_StatusNewErrorCodeFits ==
    /\ (arg.kind = "status" /\ pc \in {"built", "rejected"}
            /\ arg.error_code > 127) =>
           ret = Err("InvalidResponse")
    /\ (arg.kind = "status" /\ pc = "encoded") =>
           (wire.data \div 2) % 128 = ret.val.error_code

C20_WordCount32OnWireIsZero ==
    (/\ arg.kind = "command" /\ pc = "encoded"
     /\ arg.word_count \in 1..32)
    => WireWordCount(wire) = arg.word_count % 32

\* the i-th whole 5-byte group of the buffer
WireGroup(i) == SubSeq(wire, 5 * i - 4, 5 * i)

\* the whole groups of the buffer that parse_word rejects
FailingGroups == {i \in 1..(Len(wire) \div 5) : ~parse_word(WireGroup(i)).ok}

(* C15: parse_words and parse_transaction stop at the first 5-byte group   *)
(* that fails Manchester decoding or word validation and return exactly    *)
(* that group's error, the error of the earliest failing group and not of  *)
(* a later one; no partial word list or message is returned.               *)
C15_FirstFailingGroup ==
    (pc \in {"words_parsed", "transaction_parsed"} /\ FailingGroups # {})
    => LET first == CHOOSE i \in FailingGroups :
                        \A j \in FailingGroups : i <= j
       IN  /\ ~ret.ok
           /\ ret = parse_word(WireGroup(first))

\* a buffer of two groups was parsed: the first fails the parity check,
\* the second is no Manchester code, and the error is the parity error
C15_Witness ==
    /\ pc \in {"words_parsed", "transaction_parsed"}
    /\ Len(wire) = 10
    /\ parse_word(WireGroup(1)) = Err("ParityError")
    /\ parse_word(WireGroup(2)) = Err("InvalidManchesterEncoding")
    /\ ret = Err("ParityError")

\* the length of the run of Data-tagged words that follows words[1]
DataRun(words) ==
    CHOOSE k \in 0..(Len(words) - 1) :
        /\ \A i \in 2..(k + 1) : words[i].word_type = "Data"
        /\ (k + 2 <= Len(words)) => words[k + 2].word_type # "Data"

(* C18: parse_message over a non-empty sequence of typed words: if the     *)
(* first word is tagged Command, the data words of the result are exactly  *)
(* the longest run of Data-tagged words immediately following it, giving   *)
(* CommandData when that run is non-empty and CommandOnly when it is       *)
(* empty; if it is tagged Status the result is Status whatever follows; if *)
(* it is tagged Data or ModeCode the result is InvalidMessageType.         *)
C18_ParseMessage ==
    (arg.kind = "words" /\ pc = "message_parsed" /\ arg.words # <<>>)
    => LET words == arg.words
           run == DataRun(words)
       IN  CASE words[1].word_type = "Command" ->
                    /\ ret.ok
                    /\ ret.val.command = Command_from_word(words[1]).val
                    /\ IF run > 0
                       THEN /\ ret.val.variant = "CommandData"
                            /\ ret.val.data_words = SubSeq(words, 2, run + 1)
                       ELSE ret.val.variant = "CommandOnly"
                    /\ ret.val.variant = "CommandData" =>
                           /\ ret.val.data_words # <<>>
                           /\ \A i \in 1..Len(ret.val.data_words) :
                                  ret.val.data_words[i].word_type = "Data"
              [] words[1].word_type = "Status" ->
                    /\ ret.ok
                    /\ ret.val.variant = "Status"
                    /\ ret.val.status = StatusWord_from_word(words[1]).val
              [] OTHER -> ret = Err("InvalidMessageType")

\* a Command word, one Data word, a Status word and one more Data word
\* were parsed: CommandData with the first Data word alone
C18_Witness ==
    /\ arg.kind = "words" /\ pc = "message_parsed"
    /\ Len(arg.words) = 4
    /\ arg.words[1].word_type = "Command"
    /\ arg.words[2].word_type = "Data"
    /\ arg.words[3].word_type = "Status"
    /\ arg.words[4].word_type = "Data"
    /\ ret.ok
    /\ ret.val.variant = "CommandData"
    /\ ret.val.data_words = <<arg.words[2]>>

PairOf(data, k) ==
    (data[((k - 1) \div 4) + 1] \div Pow2(2 * ((k - 1) % 4))) % 4

\* the number of pairs decode_bits(data, n) examines
PairsExamined(data, n) ==
    IF n < 4 * Len(data) THEN n ELSE 4 * Len(data)

\* one of the pairs examined is 00 or 11
BadPairExamined(data, n) ==
    \E k \in 1..PairsExamined(data, n) : PairOf(data, k) \in {0, 3}

(* C24: decode_bits(data, n) examines only the first n bit-pairs of data,  *)
(* the least-significant pair of each byte first: it fails with            *)
(* InvalidManchesterEncoding exactly when one of the first                 *)
(* min(n, 4*len(data)) pairs is 00 or 11, with InsufficientData exactly    *)
(* when those pairs are all valid and 4*len(data) < n, and otherwise       *)
(* succeeds whatever the later pairs and bytes contain; so the 00 padding  *)
(* of a partly filled last byte, and any bytes after the fifth passed to   *)
(* decode_word, are ignored.                                               *)
C24_DecodeBitsFirstPairsOnly ==
    /\ (arg.kind = "raw_bits" /\ pc = "decoded") =>
           LET data == arg.bytes
               n == arg.num_bits
           IN  /\ ret = Err("InvalidManchesterEncoding")
                      <=> BadPairExamined(data, n)
               /\ ret = Err("InsufficientData")
                      <=> (~BadPairExamined(data, n) /\ 4 * Len(data) < n)
               /\ (~BadPairExamined(data, n) /\ 4 * Len(data) >= n) =>
                      /\ ret.ok
                      /\ ret.val = [k \in 1..n |-> PairOf(data, k) = 1]
    /\ (arg.kind = "raw_word" /\ pc = "decoded" /\ Len(arg.bytes) >= 5) =>
           IF BadPairExamined(arg.bytes, 20)
           THEN ret = Err("InvalidManchesterEncoding")
           ELSE /\ ret.ok
                /\ \A k \in 1..20 :
                       BitOf(ret.val, k - 1) =
                           IF PairOf(arg.bytes, k) = 1 THEN 1 ELSE 0
                /\ ret.val < 1048576

\* six bits were decoded from two bytes, the second partly filled: its two
\* 00 pairs are not examined
C24_Witness ==
    /\ arg.kind = "raw_bits" /\ pc = "decoded"
    /\ arg.bytes = <<102, 6>> /\ arg.num_bits = 6
    /\ PairOf(arg.bytes, 7) = 0
    /\ ret.ok
    /\ ret.val = <<FALSE, TRUE, FALSE, TRUE, FALSE, TRUE>>

====
